---- MODULE Spec2Model ----
(***************************************************************************)
(* State-machine model of audiomoth_server.py: the launch helper (the      *)
(* __main__ block and main()), report discovery (find_html_report), WAV    *)
(* counting (count_wav_files) and the request handler                      *)
(* AudioMothHTTPRequestHandler together with the parts of                  *)
(* http.server / socketserver it inherits and calls.                       *)
(*                                                                         *)
(* Python strings are modelled as sequences of one-character strings, so   *)
(* that endswith, "in", lower, glob matching, int() and f-string           *)
(* formatting are computed character by character as the code does.        *)
(***************************************************************************)
EXTENDS Integers, Sequences, FiniteSets

VARIABLES argv, PORT, tree, portBusy, pc, exit, wav_count, html_report,
          browser, console, served, req, resp, reqLogged, errReported,
          errLogged, traceback, fsTouched

vars == <<argv, PORT, tree, portBusy, pc, exit, wav_count, html_report,
          browser, console, served, req, resp, reqLogged, errReported,
          errLogged, traceback, fsTouched>>

launchVars == <<argv, PORT, tree, portBusy, exit, wav_count,
                html_report, browser, console>>

handlerVars == <<served, req, resp, reqLogged, errReported, errLogged,
                 traceback, fsTouched>>

(***************************************************************************)
(* Bounds of the model.                                                    *)
(***************************************************************************)
\* Requests handled in one run of the serving loop.
MaxRequests == 2
\* Size in bytes of every regular file of the served tree.
FileBytes == 500

(***************************************************************************)
(* String primitives.                                                      *)
(***************************************************************************)
UpperAlphabet ==
  <<"A","B","C","D","E","F","G","H","I","J","K","L","M",
    "N","O","P","Q","R","S","T","U","V","W","X","Y","Z">>

LowerAlphabet ==
  <<"a","b","c","d","e","f","g","h","i","j","k","l","m",
    "n","o","p","q","r","s","t","u","v","w","x","y","z">>

DigitChars == <<"0","1","2","3","4","5","6","7","8","9">>

\* str.lower() on one character
LowerChar(c) ==
  IF \E i \in 1..26 : UpperAlphabet[i] = c
    THEN LowerAlphabet[CHOOSE i \in 1..26 : UpperAlphabet[i] = c]
    ELSE c

\* str.lower()
Lower(s) == [i \in 1..Len(s) |-> LowerChar(s[i])]

\* str.endswith(suf)
EndsWith(s, suf) ==
  /\ Len(suf) <= Len(s)
  /\ SubSeq(s, Len(s) - Len(suf) + 1, Len(s)) = suf

\* the operator "sub in s" on strings
Contains(s, sub) ==
  \E i \in 0..(Len(s) - Len(sub)) : SubSeq(s, i + 1, i + Len(sub)) = sub

\* value of a decimal digit character
DigitValue(c) == (CHOOSE i \in 1..10 : DigitChars[i] = c) - 1

IsDigit(c) == \E i \in 1..10 : DigitChars[i] = c

RECURSIVE DigitsValue(_)
DigitsValue(s) ==
  IF s = <<>> THEN 0
  ELSE 10 * DigitsValue(SubSeq(s, 1, Len(s) - 1)) + DigitValue(s[Len(s)])

\* int(s) succeeds on an optionally signed run of decimal digits and raises
\* ValueError otherwise (the arguments of the model hold no blanks or
\* underscores, which int() would also accept around or between digits)
IntParses(s) ==
  LET body == IF s # <<>> /\ s[1] \in {"+", "-"} THEN Tail(s) ELSE s
  IN  body # <<>> /\ \A i \in 1..Len(body) : IsDigit(body[i])

\* int(s), for s such that IntParses(s)
ParseInt(s) ==
  IF s[1] = "-" THEN 0 - DigitsValue(Tail(s))
  ELSE IF s[1] = "+" THEN DigitsValue(Tail(s))
  ELSE DigitsValue(s)

\* str(n) / f"{n}" of a natural number
RECURSIVE NatToStr(_)
NatToStr(n) ==
  IF n < 10 THEN <<DigitChars[n + 1]>>
  ELSE NatToStr(n \div 10) \o <<DigitChars[(n % 10) + 1]>>

\* str(n) / f"{n}" of an integer
IntToStr(n) == IF n < 0 THEN <<"-">> \o NatToStr(0 - n) ELSE NatToStr(n)

\* fnmatch of one path component against a pattern whose only wildcard is *
RECURSIVE fnmatch(_, _)
fnmatch(name, pat) ==
  IF pat = <<>> THEN name = <<>>
  ELSE IF pat[1] = "*"
    THEN \E k \in 0..Len(name) :
           fnmatch(SubSeq(name, k + 1, Len(name)), Tail(pat))
  ELSE /\ name # <<>>
       /\ name[1] = pat[1]
       /\ fnmatch(Tail(name), Tail(pat))

\* "/".join(components): str() of a relative Path
RECURSIVE JoinPath(_)
JoinPath(p) ==
  IF Len(p) = 0 THEN <<>>
  ELSE IF Len(p) = 1 THEN p[1]
  ELSE p[1] \o <<"/">> \o JoinPath(Tail(p))

(***************************************************************************)
(* String literals of the program.                                         *)
(***************************************************************************)
S_audiomoth == <<"a","u","d","i","o","m","o","t","h">>
S_reporte   == <<"r","e","p","o","r","t","e">>
S_html      == <<".","h","t","m","l">>
S_htm       == <<".","h","t","m">>
S_wav       == <<".","w","a","v">>
S_WAV       == <<".","W","A","V">>
S_mp3       == <<".","m","p","3">>
S_MP3       == <<".","M","P","3">>
S_port      == <<"-","-","p","o","r","t">>
S_favicon   == <<"/","f","a","v","i","c","o","n",".","i","c","o">>
S_localhost ==
  <<"h","t","t","p",":","/","/","l","o","c","a","l","h","o","s","t",":">>
S_BrokenPipe == <<"B","r","o","k","e","n"," ","p","i","p","e">>
S_ConnReset  ==
  <<"C","o","n","n","e","c","t","i","o","n"," ","r","e","s","e","t">>

\* patterns = ['audiomoth_reporte.html', 'reporte.html', '*audiomoth*.html']
patterns ==
  << S_audiomoth \o <<"_">> \o S_reporte \o S_html,
     S_reporte \o S_html,
     <<"*">> \o S_audiomoth \o <<"*">> \o S_html >>

\* The module-level default: PORT = 8000
DefaultPort == 8000

\* Python's None, for html_report (no relative path is the empty string)
None == <<>>

(***************************************************************************)
(* The directory tree and the command lines the model ranges over.  A path *)
(* is the sequence of its components; a directory exists when some file    *)
(* lies below it.                                                          *)
(***************************************************************************)
N_sub    == <<"s","u","b">>
N_deep   == <<"d","e","e","p">>
N_c      == <<"c">> \o S_wav
N_recwav == <<"r","e","c">> \o S_wav
N_recWav == <<"r","e","c",".","W","a","v">>
N_recWAV == <<"r","e","c">> \o S_WAV
N_songmp3 == <<"s","o","n","g">> \o S_mp3
N_favicon == Tail(S_favicon)
N_index  == <<"i","n","d","e","x">> \o S_html
N_indexhtm == <<"i","n","d","e","x">> \o S_htm
N_dotmp3 == S_mp3
N_wild   == <<"x","_">> \o S_audiomoth \o <<"_","y">> \o S_html

\* recordings that are always present, one of them a name that is nothing
\* but a dot and an extension
AudioFiles ==
  { <<N_recwav>>, <<N_recWav>>, <<N_sub, N_recWAV>>, <<N_songmp3>>,
    <<N_dotmp3>> }

\* the index page of the directory sub, always present
PageFiles == { <<N_sub, N_indexhtm>> }

\* report files that may or may not be present, at depths 0, 1, 2 and 3
ReportCandidates ==
  { <<patterns[2]>>,
    <<N_sub, N_wild>>,
    <<N_sub, N_deep, patterns[1]>>,
    <<N_sub, N_deep, N_c, patterns[2]>> }

OtherCandidates == { <<N_favicon>> }

Trees ==
  { AudioFiles \cup PageFiles \cup R \cup F :
      R \in SUBSET ReportCandidates, F \in SUBSET OtherCandidates }

A_prog  == <<"s","r","v">>
A_recs  == <<"r","e","c","s">>
A_nodir == <<"n","o","p","e">>
A_8080  == <<"8","0","8","0">>
A_abc   == <<"8","0","8","0","a">>
A_big   == <<"9","9","9","9","9">>

\* arguments for which os.path.isdir(directory) is true
Directories == { A_recs }

\* the command lines sys.argv starts from
Argvs ==
  { <<A_prog>>,
    <<A_prog, A_recs>>,
    <<A_prog, A_nodir>>,
    <<A_prog, S_port, A_8080>>,
    <<A_prog, A_recs, S_port, A_8080>>,
    <<A_prog, S_port, A_8080, A_recs>>,
    <<A_prog, S_port, A_8080, A_nodir>>,
    <<A_prog, S_port>>,
    <<A_prog, A_recs, S_port, A_abc>>,
    <<A_prog, S_port, A_big>> }

(***************************************************************************)
(* pathlib globbing over the tree.                                         *)
(***************************************************************************)
\* every file or directory exactly d levels below the root
Entries(t, d) == { SubSeq(p, 1, d) : p \in { q \in t : Len(q) >= d } }

\* path.glob of pattern pat prefixed by d-1 times "*/"
glob(t, pat, d) == { e \in Entries(t, d) : fnmatch(e[d], pat) }

\* path.rglob(pat): matches at every depth
rglob(t, pat) ==
  UNION { glob(t, pat, d) : d \in UNION { 1..Len(p) : p \in t } }

\* count_wav_files
count_wav_files(t) ==
  Cardinality(rglob(t, <<"*">> \o S_wav)) +
  Cardinality(rglob(t, <<"*">> \o S_WAV))

\* The (pattern, depth) pairs in the order find_html_report tries them:
\* all patterns at the root, then per pattern one level down and two
\* levels down.
SearchOrder ==
  << <<1, 1>>, <<2, 1>>, <<3, 1>>,
     <<1, 2>>, <<1, 3>>,
     <<2, 2>>, <<2, 3>>,
     <<3, 2>>, <<3, 3>> >>

\* the order a strictly depth-first-by-level search would use
SearchOrderByDepth ==
  << <<1, 1>>, <<2, 1>>, <<3, 1>>,
     <<1, 2>>, <<2, 2>>, <<3, 2>>,
     <<1, 3>>, <<2, 3>>, <<3, 3>> >>

\* The values find_html_report can return when it tries order from step i:
\* matches[0] of the first non-empty glob (the order of a glob's results is
\* the file system's, so any match may come first); .name for a root match,
\* str(relative_to(path)) below the root; None when every glob is empty.
RECURSIVE FirstMatch(_, _, _)
FirstMatch(t, order, i) ==
  IF i > Len(order) THEN { None }
  ELSE LET matches == glob(t, patterns[order[i][1]], order[i][2])
       IN  IF matches # {}
             THEN { JoinPath(m) : m \in matches }
             ELSE FirstMatch(t, order, i + 1)

find_html_report_bydepth(t) == FirstMatch(t, SearchOrderByDepth, 1)

find_html_report(t) == FirstMatch(t, SearchOrder, 1)

(***************************************************************************)
(* The launch helper: the __main__ block and main().                       *)
(*   pc: "start" (before the --port block), "main" (directory check),      *)
(*       "scan" (count_wav_files), "discover" (find_html_report),          *)
(*       "bind" (TCPServer construction), "browser" (webbrowser.open),     *)
(*       "serving" (serve_forever waiting for a request), "responded"     *)
(*       (a handler has written its response and not yet returned),       *)
(*       "exited".                                                        *)
(*   exit: <<>> while the process runs, <<status>> once it has ended.      *)
(***************************************************************************)
\* exit status of an interpreter ended by an uncaught KeyboardInterrupt
\* (128 + SIGINT)
ExitSigint == 130

\* sys.argv.index('--port'), 1-based
PortIdx(a) == CHOOSE i \in 1..Len(a) : a[i] = S_port /\ \A j \in 1..(i - 1) : a[j] # S_port

\* [sys.argv[0]] + [arg for i, arg in enumerate(sys.argv[1:], 1)
\*                  if i not in [port_idx, port_idx + 1]]
RECURSIVE DropPortArgs(_, _, _)
DropPortArgs(a, i, idx) ==
  IF i > Len(a) THEN <<>>
  ELSE IF i \in {idx, idx + 1}
    THEN DropPortArgs(a, i + 1, idx)
  ELSE <<a[i]>> \o DropPortArgs(a, i + 1, idx)

Exit(status) ==
  /\ pc' = "exited"
  /\ exit' = <<status>>

\* if '--port' in sys.argv: ... (lines 196-206)
ParsePort ==
  /\ pc = "start"
  /\ IF \E i \in 1..Len(argv) : argv[i] = S_port
       THEN LET idx == PortIdx(argv)
            IN  IF idx + 1 > Len(argv) \/ ~IntParses(argv[idx + 1])
                  THEN \* IndexError or ValueError
                       /\ Exit(1)
                       /\ console' = console \cup {"port_usage"}
                       /\ UNCHANGED <<argv, PORT>>
                  ELSE /\ PORT' = ParseInt(argv[idx + 1])
                       /\ argv' = <<argv[1]>> \o DropPortArgs(argv, 2, idx)
                       /\ pc' = "main"
                       /\ UNCHANGED <<exit, console>>
       ELSE /\ pc' = "main"
            /\ UNCHANGED <<argv, PORT, exit, console>>
  /\ UNCHANGED <<tree, portBusy, wav_count, html_report, browser>>
  /\ UNCHANGED handlerVars

\* main(), lines 128-140: the working directory
CheckDirectory ==
  /\ pc = "main"
  /\ IF Len(argv) > 1 /\ argv[2] \notin Directories
       THEN /\ Exit(1)
            /\ console' = console \cup {"invalid_directory"}
       ELSE /\ pc' = "scan"
            /\ UNCHANGED <<exit, console>>
  /\ UNCHANGED <<argv, PORT, tree, portBusy, wav_count, html_report, browser>>
  /\ UNCHANGED handlerVars

\* wav_count = count_wav_files()
Scan ==
  /\ pc = "scan"
  /\ wav_count' = count_wav_files(tree)
  /\ pc' = "discover"
  /\ UNCHANGED <<argv, PORT, tree, portBusy, exit, html_report, browser,
                 console>>
  /\ UNCHANGED handlerVars

\* html_report = find_html_report(), and the report lines of the banner
Discover ==
  /\ pc = "discover"
  /\ \E r \in find_html_report(tree) :
       /\ html_report' = r
       /\ console' = console \cup
            {IF r # None THEN "report_found" ELSE "no_report"}
  /\ pc' = "bind"
  /\ UNCHANGED <<argv, PORT, tree, portBusy, exit, wav_count, browser>>
  /\ UNCHANGED handlerVars

\* Bind falling back to the next port when the configured one is in use
Bind_fallback ==
  /\ pc = "bind"
  /\ PORT \in 0..65534
  /\ PORT' = IF portBusy THEN PORT + 1 ELSE PORT
  /\ pc' = IF html_report # None THEN "browser" ELSE "serving"
  /\ console' = console \cup {"server_active"}
  /\ UNCHANGED <<argv, tree, portBusy, exit, wav_count, html_report, browser>>
  /\ UNCHANGED handlerVars

\* with socketserver.TCPServer(("", PORT), ...) as httpd, and the handlers of
\* the enclosing try for a failed bind
Bind ==
  /\ pc = "bind"
  /\ IF PORT \notin 0..65535
       THEN \* OverflowError from bind(): no handler, a traceback, status 1
            /\ Exit(1)
            /\ console' = console \cup {"traceback"}
     ELSE IF portBusy
       THEN \* OSError: either branch of the handler ends with status 1, the
            \* message when the error is recognised, the re-raise otherwise
            /\ Exit(1)
            /\ \E recognised \in BOOLEAN :
                 console' = console \cup
                   {IF recognised THEN "port_in_use" ELSE "traceback"}
     ELSE /\ pc' = IF html_report # None THEN "browser" ELSE "serving"
          /\ console' = console \cup {"server_active"}
          /\ UNCHANGED exit
  /\ UNCHANGED <<argv, PORT, tree, portBusy, wav_count, html_report, browser>>
  /\ UNCHANGED handlerVars

\* the URL built from the module default instead of the configured port
ReportUrl_default(port, report) ==
  S_localhost \o IntToStr(DefaultPort) \o <<"/">> \o report

\* url = f"http://localhost:{PORT}/{html_report}"
ReportUrl(port, report) == S_localhost \o IntToStr(port) \o <<"/">> \o report

\* webbrowser.open(url) under try / bare except
OpenBrowser ==
  /\ pc = "browser"
  /\ browser' = <<ReportUrl(PORT, html_report)>>
  /\ \E raised \in BOOLEAN :
       console' = IF raised THEN console \cup {"browser_failed"} ELSE console
  /\ pc' = "serving"
  /\ UNCHANGED <<argv, PORT, tree, portBusy, exit, wav_count, html_report>>
  /\ UNCHANGED handlerVars

\* Where a KeyboardInterrupt can be raised at each position of the launch
\* helper: "outside" the try of main() (everything up to the print of line
\* 154), in the "try" of lines 156-178, or in the call of webbrowser.open
\* ("open").  The position "bind" is reached when the report lines are
\* printed and left when TCPServer is constructed, so it spans the end of
\* the unprotected part and the start of the try.
InterruptPoints(at) ==
  IF at \in {"start", "main", "scan", "discover"} THEN {"outside"}
  ELSE IF at = "bind" THEN {"outside", "try"}
  ELSE IF at = "browser" THEN {"try", "open"}
  ELSE IF at \in {"serving", "responded"} THEN {"try"}
  ELSE {}

\* A KeyboardInterrupt raised at the current position of the launch helper.
\*   outside the try of main(): no handler, the interpreter ends by SIGINT;
\*   in webbrowser.open: caught by the bare except, the run goes on;
\*   elsewhere inside the try: except KeyboardInterrupt, sys.exit(0).
KeyboardInterrupt(where) ==
  /\ where \in InterruptPoints(pc)
  /\ IF where = "outside"
       THEN /\ Exit(ExitSigint)
            /\ console' = console \cup {"traceback"}
            /\ UNCHANGED browser
     ELSE IF where = "open"
       THEN /\ browser' = <<ReportUrl(PORT, html_report)>>
            /\ console' = console \cup {"browser_failed"}
            /\ pc' = "serving"
            /\ UNCHANGED exit
     ELSE /\ Exit(0)
          /\ console' = console \cup {"goodbye"}
          /\ UNCHANGED browser
  /\ UNCHANGED <<argv, PORT, tree, portBusy, wav_count, html_report>>
  /\ UNCHANGED handlerVars

(***************************************************************************)
(* The request handler.  A request is its method, its target (self.path),  *)
(* its Range header (<<>> when absent, else <<first, last>>) and the fault *)
(* the transport raises while the response is written ("none",             *)
(* "BrokenPipe", "ConnectionReset", or "Timeout" for ETIMEDOUT).           *)
(*                                                                         *)
(* A response is its status, its headers (pairs <<name, value>>) and its   *)
(* body.  The Server, Date and Last-Modified headers, and the              *)
(* Content-Length of generated pages (listings, error pages), carry        *)
(* run-dependent values and are left out of the header set.                *)
(***************************************************************************)
M_GET     == <<"G","E","T">>
M_HEAD    == <<"H","E","A","D">>
M_OPTIONS == <<"O","P","T","I","O","N","S">>
M_POST    == <<"P","O","S","T">>

P_recwav   == <<"/">> \o N_recwav
P_recWav   == <<"/">> \o N_recWav
P_recWAV   == <<"/">> \o N_sub \o <<"/">> \o N_recWAV
P_songmp3  == <<"/">> \o N_songmp3
P_query    == P_recwav \o <<"?","t","=","1">>
P_dotdot   == <<"/">> \o N_sub \o <<"/",".",".">> \o P_recwav
P_missing  == <<"/","m","i","s","s","i","n","g",".","w","a","v">>
P_nope     == <<"/","n","o","p","e">>
P_root     == <<"/">>
P_sub      == <<"/">> \o N_sub
P_subslash == P_sub \o <<"/">>
P_subquery == P_sub \o <<"?","x","=","1">>
P_dotmp3   == <<"/">> \o N_dotmp3
P_reporte  == <<"/">> \o patterns[2]
P_star     == <<"*">>

V_star         == <<"*">>
V_methods      == <<"G","E","T",","," ","O","P","T","I","O","N","S">>
V_maxage       == <<"m","a","x","-","a","g","e","=","3","6","0","0">>
V_bytes        == <<"b","y","t","e","s">>
V_close        == <<"c","l","o","s","e">>
V_audio_wav    == <<"a","u","d","i","o","/","w","a","v">>
V_audio_xwav   == <<"a","u","d","i","o","/","x","-","w","a","v">>
V_audio_mpeg   == <<"a","u","d","i","o","/","m","p","e","g">>
V_text_html    == <<"t","e","x","t","/","h","t","m","l">>
V_icon         == <<"i","m","a","g","e","/","v","n","d",".","m","i","c","r","o","s","o","f","t",".","i","c","o","n">>
V_octet        == <<"a","p","p","l","i","c","a","t","i","o","n","/","o","c","t","e","t","-","s","t","r","e","a","m">>
V_listing_type == <<"t","e","x","t","/","h","t","m","l",";"," ","c","h","a","r","s","e","t","=","u","t","f","-","8">>
V_error_type   == <<"t","e","x","t","/","h","t","m","l",";","c","h","a","r","s","e","t","=","u","t","f","-","8">>
V_http11       == <<" ","H","T","T","P","/","1",".","1">>
V_timed_out    ==
  <<"[","E","r","r","n","o"," ","1","1","0","]"," ","C","o","n","n","e","c",
    "t","i","o","n"," ","t","i","m","e","d"," ","o","u","t">>
S_ico          == <<".","i","c","o">>

GetPaths ==
  { P_recwav, P_recWav, P_recWAV, P_songmp3, P_query, P_dotdot, P_missing,
    P_nope, S_favicon, P_root, P_sub, P_subslash, P_subquery, P_dotmp3,
    P_reporte }

\* Range headers sent with a GET: none, or bytes=first-last
Ranges == { <<>>, <<0, 99>> }

Faults == { "none", "BrokenPipe", "ConnectionReset", "Timeout" }

Requests ==
  [method : {M_GET}, path : GetPaths, range : {<<>>}]
  \cup [method : {M_GET}, path : {P_recwav, P_recWav}, range : Ranges]
  \cup [method : {M_HEAD}, path : {P_recwav, P_nope, S_favicon}, range : {<<>>}]
  \cup [method : {M_OPTIONS}, path : {P_star, P_recwav}, range : {<<>>}]
  \cup [method : {M_POST}, path : {P_recwav}, range : {<<>>}]

NoRequest == [method |-> <<>>, path |-> <<>>, range |-> <<>>, fault |-> "none"]

NoBody == [kind |-> "none", fileBytes |-> 0]

NoResponse == [status |-> 0, headers |-> {}, body |-> NoBody]

CorsHeaders ==
  { <<"Access-Control-Allow-Origin", V_star>>,
    <<"Access-Control-Allow-Methods", V_methods>>,
    <<"Access-Control-Allow-Headers", V_star>> }

AudioHeaders ==
  { <<"Cache-Control", V_maxage>>, <<"Accept-Ranges", V_bytes>> }

\* the headers end_headers adds only for the extensions it lists
end_headers_audio_only(path, hdrs) ==
  hdrs \cup
    (IF \E ext \in {S_wav, S_WAV, S_mp3, S_MP3} : EndsWith(path, ext)
       THEN CorsHeaders \cup AudioHeaders ELSE {})

\* end_headers: the headers buffered so far plus the ones it sends
end_headers(path, hdrs) ==
  hdrs \cup CorsHeaders \cup
    (IF \E ext \in {S_wav, S_WAV, S_mp3, S_MP3} : EndsWith(path, ext)
       THEN AudioHeaders ELSE {})

\* log_message: TRUE when the line is printed
log_message(args) ==
  /\ Len(args) > 0
  /\ \E ext \in {S_wav, S_WAV, S_html, S_mp3, S_MP3} : Contains(args[1], ext)

\* log_error: TRUE when the line is printed (super().log_error passes the
\* message on to self.log_message)
log_error(args) ==
  IF Len(args) > 0 /\
     (Contains(args[1], S_BrokenPipe) \/ Contains(args[1], S_ConnReset))
    THEN FALSE
    ELSE log_message(args)

\* index of the last occurrence of character c in s (str.rfind, 1-based),
\* 0 when there is none
LastIndex(s, c) ==
  IF \E i \in 1..Len(s) : s[i] = c
    THEN CHOOSE i \in 1..Len(s) :
           s[i] = c /\ \A j \in (i + 1)..Len(s) : s[j] # c
    ELSE 0

\* posixpath.splitext(path)[1]: from the last dot of the last component on,
\* when a character other than a dot precedes it in that component
splitext(path) ==
  LET sepIndex == LastIndex(path, "/")
      dotIndex == LastIndex(path, ".")
  IN  IF /\ dotIndex > sepIndex
         /\ \E k \in (sepIndex + 1)..(dotIndex - 1) : path[k] # "."
        THEN SubSeq(path, dotIndex, Len(path))
        ELSE <<>>

\* guess_type of the base handler: the registry entries for the extensions
\* of the tree, looked up on the lower-cased extension of splitext
base_guess_type(path) ==
  LET ext == Lower(splitext(path))
  IN  IF ext \in {S_html, S_htm} THEN V_text_html
      ELSE IF ext = S_mp3 THEN V_audio_mpeg
      ELSE IF ext = S_ico THEN V_icon
      ELSE IF ext = S_wav THEN V_audio_xwav
      ELSE V_octet

\* guess_type
guess_type(path) ==
  IF EndsWith(Lower(path), S_wav) THEN V_audio_wav ELSE base_guess_type(path)


\* the part of a string before the first occurrence of character c
CutAt(s, c) ==
  IF \E i \in 1..Len(s) : s[i] = c
    THEN SubSeq(s, 1, (CHOOSE i \in 1..Len(s) :
                         s[i] = c /\ \A j \in 1..(i - 1) : s[j] # c) - 1)
    ELSE s

\* the request target without its query and fragment
StripQuery(path) == CutAt(CutAt(path, "?"), "#")

\* str.split('/'): every word between slashes, the empty ones included
RECURSIVE Split(_)
Split(s) ==
  LET w == CutAt(s, "/")
  IN  IF Len(w) = Len(s) THEN <<w>>
      ELSE <<w>> \o Split(SubSeq(s, Len(w) + 2, Len(s)))

\* The loop of posixpath.normpath over the words from the i-th on: empty
\* words and "." are skipped; ".." removes the word before it, is dropped
\* at the root of an absolute path, and is kept at the start of a relative
\* one; every other word is kept.
RECURSIVE NormWords(_, _, _, _)
NormWords(words, i, kept, absolute) ==
  IF i > Len(words) THEN kept
  ELSE LET w == words[i]
       IN  IF w = <<>> \/ w = <<".">>
             THEN NormWords(words, i + 1, kept, absolute)
           ELSE IF \/ w # <<".", ".">>
                   \/ (~absolute /\ kept = <<>>)
                   \/ (kept # <<>> /\ kept[Len(kept)] = <<".", ".">>)
             THEN NormWords(words, i + 1, Append(kept, w), absolute)
           ELSE IF kept # <<>>
             THEN NormWords(words, i + 1,
                            SubSeq(kept, 1, Len(kept) - 1), absolute)
           ELSE NormWords(words, i + 1, kept, absolute)

\* posixpath.normpath, as the words of the normalised path: those the loop
\* keeps, or the single word "." when a relative path keeps none
\* (return path or dot)
normpath(path) ==
  LET absolute == path # <<>> /\ path[1] = "/"
      comps    == NormWords(Split(path), 1, <<>>, absolute)
  IN  IF comps = <<>> /\ ~absolute THEN << <<".">> >> ELSE comps

\* the words translate_path joins to the served directory: those of the
\* normalised path that are neither empty nor "." nor ".."
Words(path) ==
  SelectSeq(normpath(path),
            LAMBDA w : w # <<>> /\ w # <<".">> /\ w # <<".", ".">>)

\* translate_path: the components below the served directory (the targets
\* of the model hold no %-escapes, which unquote would decode)
translate_path(path) == Words(StripQuery(path))

\* os.path.isdir of a translated path
IsDir(t, words) ==
  \/ words = <<>>
  \/ \E p \in t : Len(p) > Len(words) /\ SubSeq(p, 1, Len(words)) = words

\* send_error: log_error, send_response, the error page (not for HEAD)
send_error(r, code) ==
  [ status  |-> code,
    headers |-> end_headers(r.path,
                  { <<"Connection", V_close>>,
                    <<"Content-Type", V_error_type>> }),
    body    |-> IF r.method = M_HEAD THEN NoBody
                ELSE [kind |-> "error", fileBytes |-> 0],
    errs    |-> { IntToStr(code) },
    fs      |-> FALSE ]

\* the part of a string after the first occurrence of character c, empty
\* when there is none
RestAfter(s, c) == SubSeq(s, Len(CutAt(s, c)) + 2, Len(s))

\* urllib.parse.urlsplit of a request target that has neither scheme nor
\* host: the fragment is cut off first, then the query
SplitFragment(target) == RestAfter(target, "#")

SplitQuery(target) == RestAfter(CutAt(target, "#"), "?")

SplitPath(target) == CutAt(CutAt(target, "#"), "?")

\* urlunsplit of the parts with "/" appended to the path: the Location of
\* the redirect to a directory
RedirectUrl(target) ==
  SplitPath(target) \o <<"/">>
    \o (IF SplitQuery(target) # <<>>
          THEN <<"?">> \o SplitQuery(target) ELSE <<>>)
    \o (IF SplitFragment(target) # <<>>
          THEN <<"#">> \o SplitFragment(target) ELSE <<>>)

\* for index in "index.html", "index.htm": the first that is a file of the
\* directory, <<>> when neither is
IndexFile(t, words) ==
  IF words \o <<N_index>> \in t THEN words \o <<N_index>>
  ELSE IF words \o <<N_indexhtm>> \in t THEN words \o <<N_indexhtm>>
  ELSE <<>>

\* send_head of SimpleHTTPRequestHandler and the copy of the file it
\* returns; withBody is FALSE for HEAD.  A Range header is not looked at.
send_head(r, t, withBody) ==
  LET words == translate_path(r.path)
      index == IndexFile(t, words)
      file  == IF IsDir(t, words) THEN index ELSE words
  IN  IF IsDir(t, words) /\ ~EndsWith(SplitPath(r.path), <<"/">>)
        THEN [ status  |-> 301,
               headers |-> end_headers(r.path,
                             { <<"Location", RedirectUrl(r.path)>>,
                               <<"Content-Length", IntToStr(0)>> }),
               body    |-> NoBody,
               errs    |-> {},
               fs      |-> TRUE ]
      ELSE IF IsDir(t, words) /\ index = <<>>
        THEN \* list_directory
             [ status  |-> 200,
               headers |-> end_headers(r.path,
                             { <<"Content-type", V_listing_type>> }),
               body    |-> IF withBody
                             THEN [kind |-> "listing", fileBytes |-> 0]
                             ELSE NoBody,
               errs    |-> {},
               fs      |-> TRUE ]
      ELSE IF \/ (~IsDir(t, words) /\ EndsWith(StripQuery(r.path), <<"/">>))
              \/ file \notin t
        THEN [send_error(r, 404) EXCEPT !.fs = TRUE]
      ELSE [ status  |-> 200,
             headers |-> end_headers(r.path,
                           { <<"Content-type", guess_type(JoinPath(file))>>,
                             <<"Content-Length", IntToStr(FileBytes)>> }),
             body    |-> IF withBody
                           THEN [kind |-> "file", fileBytes |-> FileBytes]
                           ELSE NoBody,
             errs    |-> {},
             fs      |-> TRUE ]

\* do_GET without the favicon case
do_GET_nofavicon(r, t) == send_head(r, t, TRUE)

\* do_GET
do_GET(r, t) ==
  IF r.path = S_favicon
    THEN [ status  |-> 204,
           headers |-> end_headers(r.path, {}),
           body    |-> NoBody,
           errs    |-> {},
           fs      |-> FALSE ]
    ELSE send_head(r, t, TRUE)

\* do_HEAD of SimpleHTTPRequestHandler
do_HEAD(r, t) == send_head(r, t, FALSE)

\* do_OPTIONS
do_OPTIONS(r) ==
  [ status  |-> 200,
    headers |-> end_headers(r.path, {}),
    body    |-> NoBody,
    errs    |-> {},
    fs      |-> FALSE ]

\* handle_one_request: mname = 'do_' + self.command, 501 without a method
Dispatch(r, t) ==
  IF r.method = M_GET THEN do_GET(r, t)
  ELSE IF r.method = M_HEAD THEN do_HEAD(r, t)
  ELSE IF r.method = M_OPTIONS THEN do_OPTIONS(r)
  ELSE send_error(r, 501)

\* TRUE when the response is written inside the try of do_GET, whose
\* handler swallows BrokenPipeError and ConnectionResetError
InsideTry(r) == r.method = M_GET /\ r.path # S_favicon

\* One request through handle_one_request and, for what escapes it, the
\* handler of socketserver (handle_error prints a traceback, the serving
\* loop goes on).  A TimeoutError is caught by handle_one_request itself,
\* which reports it with log_error.
HandleRequest(r, fault) ==
  /\ pc = "serving"
  /\ served < MaxRequests
  /\ LET out  == Dispatch(r, tree)
         line == r.method \o <<" ">> \o r.path \o V_http11
         errs == out.errs \cup
                   (IF fault = "Timeout" THEN {V_timed_out} ELSE {})
     IN  /\ req' = [method |-> r.method, path |-> r.path,
                    range |-> r.range, fault |-> fault]
         /\ resp' = [status |-> out.status, headers |-> out.headers,
                     body |-> out.body]
         /\ reqLogged' = log_message(<<line, IntToStr(out.status)>>)
         /\ errReported' = errs
         /\ errLogged' = { e \in errs : log_error(<<e>>) }
         /\ traceback' = (fault \in {"BrokenPipe", "ConnectionReset"}
                          /\ ~InsideTry(r))
         /\ fsTouched' = out.fs
  /\ pc' = "responded"
  /\ UNCHANGED served
  /\ UNCHANGED launchVars

E_broken_pipe == <<"[","E","r","r","n","o"," ","3","2","]"," ">> \o S_BrokenPipe
E_conn_reset  == <<"[","E","r","r","n","o"," ","1","0","4","]"," ">> \o S_ConnReset \o <<" ","b","y"," ","p","e","e","r">>
E_read_failed == <<"c","a","n","n","o","t"," ","r","e","a","d"," ","/","r","e","c",".","w","a","v">>

ErrorMessages == { E_broken_pipe, E_conn_reset, E_read_failed }

\* log_error called with the message e of an error, outside a response
LogErrorCall(e) ==
  /\ pc = "serving"
  /\ served < MaxRequests
  /\ req' = NoRequest
  /\ resp' = NoResponse
  /\ reqLogged' = FALSE
  /\ errReported' = {e}
  /\ errLogged' = { x \in {e} : log_error(<<x>>) }
  /\ traceback' = FALSE
  /\ fsTouched' = FALSE
  /\ pc' = "responded"
  /\ UNCHANGED served
  /\ UNCHANGED launchVars

\* The handler returns (or socketserver has dealt with what it raised): the
\* request context is dropped and serve_forever waits for the next request.
FinishRequest ==
  /\ pc = "responded"
  /\ pc' = "serving"
  /\ served' = served + 1
  /\ req' = NoRequest
  /\ resp' = NoResponse
  /\ reqLogged' = FALSE
  /\ errReported' = {}
  /\ errLogged' = {}
  /\ traceback' = FALSE
  /\ fsTouched' = FALSE
  /\ UNCHANGED launchVars

(***************************************************************************)
(* The specification.                                                      *)
(***************************************************************************)
Init ==
  /\ argv \in Argvs
  /\ PORT = DefaultPort
  /\ tree \in Trees
  /\ portBusy \in BOOLEAN
  /\ pc = "start"
  /\ exit = <<>>
  /\ wav_count = 0
  /\ html_report = None
  /\ browser = <<>>
  /\ console = {}
  /\ served = 0
  /\ req = NoRequest
  /\ resp = NoResponse
  /\ reqLogged = FALSE
  /\ errReported = {}
  /\ errLogged = {}
  /\ traceback = FALSE
  /\ fsTouched = FALSE

Next ==
  \/ ParsePort
  \/ CheckDirectory
  \/ Scan
  \/ Discover
  \/ Bind
  \/ OpenBrowser
  \/ \E where \in {"outside", "try", "open"} : KeyboardInterrupt(where)
  \/ \E r \in Requests, fault \in Faults : HandleRequest(r, fault)
  \/ \E e \in ErrorMessages : LogErrorCall(e)
  \/ FinishRequest

Spec == Init /\ [][Next]_vars

(***************************************************************************)
(* Properties.                                                             *)
(***************************************************************************)
Responded == pc = "responded" /\ resp.status # 0

\* C1: every response the handler emits carries the three CORS headers,
\* whatever the path and the status code.
C1_CorsOnEveryResponse ==
  resp.status # 0 => CorsHeaders \subseteq resp.headers

\* a 404 error response, emitted through send_error, carrying them
C1_Witness ==
  /\ Responded
  /\ resp.status = 404
  /\ CorsHeaders \subseteq resp.headers

\* "bytes first-last/size"
ContentRangeValue(first, last, size) ==
  <<"b","y","t","e","s"," ">> \o IntToStr(first) \o <<"-">> \o IntToStr(last) \o <<"/">>
    \o IntToStr(size)

\* C2: a GET of an existing audio file with a valid Range: bytes=first-last
\* is answered 206 with Content-Range "bytes first-last/size" and a body of
\* exactly last-first+1 bytes.
C2_RangeHonoured ==
  ( /\ Responded
    /\ req.method = M_GET
    /\ req.range # <<>>
    /\ translate_path(req.path) \in tree
    /\ 0 <= req.range[1]
    /\ req.range[1] <= req.range[2]
    /\ req.range[2] < FileBytes )
  => /\ resp.status = 206
     /\ <<"Content-Range",
          ContentRangeValue(req.range[1], req.range[2], FileBytes)>>
          \in resp.headers
     /\ resp.body = [kind |-> "file",
                     fileBytes |-> req.range[2] - req.range[1] + 1]

\* C3: every response to a request for a file whose extension is .wav or
\* .mp3 in any letter case carries Cache-Control: max-age=3600 and
\* Accept-Ranges: bytes.
C3_AudioHeadersAnyCase ==
  ( /\ Responded
    /\ \/ EndsWith(Lower(req.path), S_wav)
       \/ EndsWith(Lower(req.path), S_mp3) )
  => AudioHeaders \subseteq resp.headers

\* C4: GET /favicon.ico always yields 204 with an empty body and without
\* any look at the file system, whether or not the file exists.
C4_FaviconShortCircuit ==
  (Responded /\ req.method = M_GET /\ req.path = S_favicon)
  => /\ resp.status = 204
     /\ resp.body = NoBody
     /\ ~fsTouched

\* the favicon request answered while a favicon.ico lies in the root
C4_Witness ==
  /\ Responded
  /\ req.method = M_GET
  /\ req.path = S_favicon
  /\ <<N_favicon>> \in tree
  /\ resp.status = 204

\* the relative paths of the matches of pattern i at depth d
Matches(t, i, d) == { JoinPath(m) : m \in glob(t, patterns[i], d) }

MinOf(S) == CHOOSE i \in S : \A j \in S : i <= j

\* C5 as amended: a root-level match of the first matching pattern if any
\* pattern matches at the root; otherwise, for the first pattern in priority
\* order that matches one or two levels down, its match one level down if
\* there is one, else its match two levels down; None exactly when no
\* pattern matches at depth 0, 1 or 2.
C5_PatternMajorBelowRoot ==
  pc \in {"bind", "browser", "serving", "responded"} =>
    LET rootPats == { i \in 1..3 : Matches(tree, i, 1) # {} }
        subPats  == { i \in 1..3 :
                        Matches(tree, i, 2) \cup Matches(tree, i, 3) # {} }
    IN  /\ rootPats # {} =>
             html_report \in Matches(tree, MinOf(rootPats), 1)
        /\ (rootPats = {} /\ subPats # {}) =>
             IF Matches(tree, MinOf(subPats), 2) # {}
               THEN html_report \in Matches(tree, MinOf(subPats), 2)
               ELSE html_report \in Matches(tree, MinOf(subPats), 3)
        /\ html_report = None <=> (rootPats = {} /\ subPats = {})

\* a lower-priority pattern matches one level down, a higher-priority one
\* two levels down, and the latter is returned
C5_Witness ==
  /\ pc = "bind"
  /\ \A i \in 1..3 : Matches(tree, i, 1) = {}
  /\ Matches(tree, 3, 2) # {}
  /\ Matches(tree, 1, 2) = {}
  /\ html_report \in Matches(tree, 1, 3)

\* C5 as stated: root first, then any match one level down, then any match
\* two levels down; None exactly when nothing matches at depth 0, 1 or 2.
C5_DepthMajor ==
  pc \in {"bind", "browser", "serving", "responded"} =>
    LET At(d) == UNION { Matches(tree, i, d) : i \in 1..3 }
    IN  /\ At(1) # {} => html_report \in At(1)
        /\ (At(1) = {} /\ At(2) # {}) => html_report \in At(2)
        /\ (At(1) = {} /\ At(2) = {} /\ At(3) # {}) => html_report \in At(3)
        /\ html_report = None <=> (At(1) = {} /\ At(2) = {} /\ At(3) = {})

\* --port without a value or with a value int() rejects
BadPortUsage(a) ==
  /\ \E i \in 1..Len(a) : a[i] = S_port
  /\ \/ PortIdx(a) + 1 > Len(a)
     \/ ~IntParses(a[PortIdx(a) + 1])

\* a directory argument that is not a directory
BadDirectory(a) == Len(a) > 1 /\ a[2] \notin Directories

\* C6: each startup failure (bad --port usage, a directory argument that is
\* not a directory, a listening port already in use) ends the process with
\* status 1 and the serving loop is never entered; when the port is in use
\* no other port is bound.
C6_StartupFailuresExit1 ==
  /\ [](BadPortUsage(argv) =>
          pc \in {"start", "exited"} /\ served = 0)
  /\ []((pc # "start" /\ BadDirectory(argv)) =>
          pc \in {"main", "exited"} /\ served = 0)
  /\ [](portBusy =>
          /\ pc \notin {"browser", "serving", "responded"}
          /\ served = 0
          /\ browser = <<>>)
  /\ [][ /\ (ParsePort /\ BadPortUsage(argv)) =>
              (pc' = "exited" /\ exit' = <<1>>)
         /\ (CheckDirectory /\ BadDirectory(argv)) =>
              (pc' = "exited" /\ exit' = <<1>>)
         /\ (Bind /\ portBusy) =>
              (pc' = "exited" /\ exit' = <<1>> /\ PORT' = PORT) ]_vars

\* the bind found the configured port in use and the process ended with 1
C6_Witness ==
  /\ pc = "exited"
  /\ exit = <<1>>
  /\ portBusy
  /\ PORT = 8080
  /\ "port_in_use" \in console
  /\ served = 0

\* C7: a KeyboardInterrupt at any point of the launch helper's run ends the
\* process with status 0.
C7_InterruptExits0 ==
  [][ (\E where \in {"outside", "try", "open"} : KeyboardInterrupt(where)) =>
        (pc' = "exited" /\ exit' = <<0>>) ]_vars

\* an error message of the transport-disconnect class
IsDisconnect(e) == Contains(e, S_BrokenPipe) \/ Contains(e, S_ConnReset)

\* C8: log_error suppresses exactly the errors of the transport-disconnect
\* class and prints every other error it is given.
C8_OtherErrorsPrinted ==
  \A e \in errReported : (e \in errLogged) <=> ~IsDisconnect(e)

\* C9: a peer that closes the connection while any response is written is
\* benign: nothing is logged as an error and the error does not leave the
\* request's handling.
C9_DisconnectBenign ==
  (pc = "responded" /\ req.fault \in {"BrokenPipe", "ConnectionReset"})
  => (~traceback /\ errLogged = {})

\* the host:port and path parts of a URL http://localhost:<port>/<path>
UrlPort(url) ==
  CutAt(SubSeq(url, Len(S_localhost) + 1, Len(url)), "/")

UrlPath(url) ==
  SubSeq(url, Len(S_localhost) + Len(UrlPort(url)) + 2, Len(url))

\* C10: the browser is opened if and only if a report was found, only after
\* the configured port was bound, with http://localhost:<port>/<report>; a
\* failure to open it is not fatal, the serving loop is still entered.
C10_BrowserAfterBind ==
  /\ browser # <<>> =>
       /\ html_report # None
       /\ ~portBusy
       /\ pc \in {"serving", "responded", "exited"}
       /\ SubSeq(browser[1], 1, Len(S_localhost)) = S_localhost
       /\ IntParses(UrlPort(browser[1]))
       /\ ParseInt(UrlPort(browser[1])) = PORT
       /\ UrlPath(browser[1]) = html_report
  /\ (pc \in {"serving", "responded"} /\ html_report # None) => browser # <<>>
  /\ html_report = None => browser = <<>>
  /\ "browser_failed" \in console =>
       \/ pc \in {"serving", "responded"}
       \/ pc = "exited" /\ exit = <<0>>

\* the browser could not be opened for a report one level down on the port
\* given with --port, and a request was served afterwards
C10_Witness ==
  /\ pc = "responded"
  /\ "browser_failed" \in console
  /\ PORT = 8080
  /\ browser = <<ReportUrl(8080, JoinPath(<<N_sub, N_wild>>))>>
  /\ resp.status = 200

====
